---- MODULE Spec2Model ----
(***************************************************************************)
(* State-machine model of the invoice form                                 *)
(* (client/src/components/forms/invoice-form.tsx).                         *)
(*                                                                         *)
(* One action per event handler of the component.  Every action ends with  *)
(* the re-render React performs after the handler: the derived values      *)
(* (calculateTotals, line 170) are recomputed and the passive effect on    *)
(* scannedProduct (lines 103-109) runs when its dependency changed.        *)
(* Amounts are integers; a decimal string of the API ("10") is turned      *)
(* into a number by ParseFloat.                                            *)
(***************************************************************************)
EXTENDS Integers, Sequences, FiniteSets, TLC

\* ------------------------------------------------------------------ bounds
MaxQuantity == 2          \* largest quantity a line is driven to

\* ------------------------------------------------------------ input domains
Products == {"p1", "p2"}
Customers == {"c1"}
NoCustomer == "null"
PriceStrings == {"10", "5"}
Codes == {"A", "B"}
BarcodeInputs == {"", " ", "A ", "B"}
CustomerNames == {"", "Ali"}
DiscountInputs == {"0", "", "3", "30"}
Currencies == {"TRY", "USD"}
PaymentTypes == {"cash", "credit"}
LineIds == {"u1", "u2"}        \* values crypto.randomUUID returns

ProductName(pid) == IF pid = "p1" THEN "tea" ELSE "rice"
CustomerNameOf(cid) == IF cid = "c1" THEN "Zeynep" ELSE ""

\* ---------------------------------------------------------------- state
VARIABLES
  items,               \* useState<TransactionItem[]>([])          (line 35)
  selectedCustomer,    \* useState<Customer | null>(null)          (line 36)
  barcodeInput,        \* useState("")                             (line 39)
  lastScannedBarcode,  \* useState("")                             (line 40)
  queryCache,          \* react-query cache of ["/api/products/barcode", code]
  products,            \* data of the ["/api/products", ...] query: id -> price string
  form,                \* react-hook-form values                   (lines 58-66)
  mutation,            \* createTransactionMutation: its status
  request,             \* the POST /api/transactions in flight, <<>> when none
  toast,               \* the toast last shown
  open,                \* the open prop
  invalidated,         \* query keys invalidated through queryClient
  totals,              \* const totals = calculateTotals()         (line 170)
  lastEvent,           \* history: the handler that ran last
  addCount             \* history: addItem(p) calls since p last had no line

vars == <<items, selectedCustomer, barcodeInput, lastScannedBarcode, queryCache,
          products, form, mutation, request, toast, open, invalidated, totals,
          lastEvent, addCount>>

\* ------------------------------------------------------------ conversions
\* parseFloat on the decimal strings the model uses
ParseFloat(s) ==
  CASE s = "0" -> 0
    [] s = "3" -> 3
    [] s = "5" -> 5
    [] s = "10" -> 10
    [] s = "30" -> 30

\* String.prototype.trim on the scan inputs the model uses
Trim(s) ==
  CASE s = " " -> ""
    [] s = "A " -> "A"
    [] OTHER -> s

\* ---------------------------------------------------------------- helpers
NoProduct == [id |-> "", name |-> "", price |-> ""]

\* a Product of the catalog as the API returns it
CatalogProduct(pid) == [id |-> pid, name |-> ProductName(pid), price |-> products[pid]]

\* the product the barcode endpoint resolves a code to
BarcodeProduct(code) == IF code = "A" THEN "p1" ELSE "p2"

HasLine(its, pid) == \E i \in 1..Len(its) : its[i].productId = pid

LineOf(its, pid) == its[CHOOSE i \in 1..Len(its) : its[i].productId = pid]

\* the values crypto.randomUUID can return: unique among the lines
FreshIds(its) == LineIds \ {its[i].id : i \in 1..Len(its)}

\* addItem without the lookup of an existing line: every call appends
AddItemAlwaysAppends(its, product, uuid) ==
  Append(its, [id |-> uuid,
               transactionId |-> "",
               productId |-> product.id,
               productName |-> product.name,
               quantity |-> 1,
               price |-> ParseFloat(product.price),
               total |-> ParseFloat(product.price)])

\* addItem with the total computed from the quantity before the increment
AddItemStaleTotal(its, product, uuid) ==
  IF \E i \in 1..Len(its) : its[i].productId = product.id
  THEN [i \in 1..Len(its) |->
          IF its[i].productId = product.id
          THEN [its[i] EXCEPT !.quantity = its[i].quantity + 1,
                              !.total = its[i].quantity * its[i].price]
          ELSE its[i]]
  ELSE Append(its, [id |-> uuid,
                    transactionId |-> "",
                    productId |-> product.id,
                    productName |-> product.name,
                    quantity |-> 1,
                    price |-> ParseFloat(product.price),
                    total |-> ParseFloat(product.price)])

\* addItem incrementing the quantity and leaving the total as it was
AddItemKeepsTotal(its, product, uuid) ==
  IF \E i \in 1..Len(its) : its[i].productId = product.id
  THEN [i \in 1..Len(its) |->
          IF its[i].productId = product.id
          THEN [its[i] EXCEPT !.quantity = its[i].quantity + 1]
          ELSE its[i]]
  ELSE Append(its, [id |-> uuid,
                    transactionId |-> "",
                    productId |-> product.id,
                    productName |-> product.name,
                    quantity |-> 1,
                    price |-> ParseFloat(product.price),
                    total |-> ParseFloat(product.price)])

\* addItem taking the price of the product it is called with on every call
AddItemReprices(its, product, uuid) ==
  IF \E i \in 1..Len(its) : its[i].productId = product.id
  THEN [i \in 1..Len(its) |->
          IF its[i].productId = product.id
          THEN [its[i] EXCEPT !.quantity = its[i].quantity + 1,
                              !.price = ParseFloat(product.price),
                              !.total = (its[i].quantity + 1) * ParseFloat(product.price)]
          ELSE its[i]]
  ELSE Append(its, [id |-> uuid,
                    transactionId |-> "",
                    productId |-> product.id,
                    productName |-> product.name,
                    quantity |-> 1,
                    price |-> ParseFloat(product.price),
                    total |-> ParseFloat(product.price)])

\* addItem (lines 68-89); uuid is the value crypto.randomUUID() returns
AddItem(its, product, uuid) ==
  IF \E i \in 1..Len(its) : its[i].productId = product.id
  THEN [i \in 1..Len(its) |->
          IF its[i].productId = product.id
          THEN [its[i] EXCEPT !.quantity = its[i].quantity + 1,
                              !.total = (its[i].quantity + 1) * its[i].price]
          ELSE its[i]]
  ELSE Append(its, [id |-> uuid,
                    transactionId |-> "",
                    productId |-> product.id,
                    productName |-> product.name,
                    quantity |-> 1,
                    price |-> ParseFloat(product.price),
                    total |-> ParseFloat(product.price)])

\* a removal that takes one unit off a line of quantity above 1
RemoveByIdDecrements(its, id) ==
  SelectSeq([i \in 1..Len(its) |->
               IF its[i].id = id /\ its[i].quantity > 1
               THEN [its[i] EXCEPT !.quantity = its[i].quantity - 1,
                                   !.total = (its[i].quantity - 1) * its[i].price]
               ELSE its[i]],
            LAMBDA l : l.id # id \/ (\E i \in 1..Len(its) : its[i].id = id /\ its[i].quantity > 1))

\* the filter with the comparison inverted
RemoveByIdInverted(its, id) == SelectSeq(its, LAMBDA l : l.id = id)

\* items.filter((i) => i.id !== item.id) (line 347)
RemoveById(its, id) == SelectSeq(its, LAMBDA l : l.id # id)

\* items.reduce((sum, item) => sum + item.total, 0) (line 112)
RECURSIVE Reduce(_, _, _)
Reduce(its, k, sum) ==
  IF k > Len(its) THEN sum ELSE Reduce(its, k + 1, sum + its[k].total)

\* calculateTotals with the total clamped at zero
CalculateTotalsClamped(its, f) ==
  LET subtotal == Reduce(its, 1, 0)
      discount == ParseFloat(IF f.discount # "" THEN f.discount ELSE "0")
      total == IF subtotal - discount < 0 THEN 0 ELSE subtotal - discount
  IN [subtotal |-> subtotal, discount |-> discount, total |-> total]

\* calculateTotals (lines 111-117)
CalculateTotals(its, f) ==
  LET subtotal == Reduce(its, 1, 0)
      discount == ParseFloat(IF f.discount # "" THEN f.discount ELSE "0")
      total == subtotal - discount
  IN [subtotal |-> subtotal, discount |-> discount, total |-> total]

\* data of the barcode query (lines 47-51): undefined while the query is
\* disabled (empty code) or has no data
ScannedProductOf(cache, code) == IF code # "" THEN cache[code].data ELSE NoProduct

ScannedProduct == ScannedProductOf(queryCache, lastScannedBarcode)

\* isLoading of the barcode query
BarcodeLoading ==
  /\ lastScannedBarcode # ""
  /\ queryCache[lastScannedBarcode].status = "fetching"
  /\ queryCache[lastScannedBarcode].data = NoProduct

\* the notice with the test of scannedProduct not negated
NotFoundNoticeNotNegated ==
  lastScannedBarcode # "" /\ ScannedProduct # NoProduct /\ ~BarcodeLoading

\* the not-found notice (lines 213-215)
NotFoundNotice ==
  lastScannedBarcode # "" /\ ScannedProduct = NoProduct /\ ~BarcodeLoading

\* disabled of the scan button (line 203)
ScanButtonDisabled == BarcodeLoading \/ Trim(barcodeInput) = ""

\* createTransactionMutation.isPending (line 401)
IsPending == mutation.status = "pending"

DefaultValues ==
  [customerName |-> "", discount |-> "0", paymentType |-> "cash", currency |-> "TRY"]

WithinQuantity(its, pid) ==
  \A i \in 1..Len(its) : its[i].productId = pid => its[i].quantity < MaxQuantity

\* a call addItem(product) from a handler: the id is drawn when a line is built
CallAddItem(product) ==
  /\ WithinQuantity(items, product.id)
  /\ \E uuid \in (IF HasLine(items, product.id) THEN LineIds ELSE FreshIds(items)) :
       items' = AddItem(items, product, uuid)

\* ------------------------------------------------------- end of a handler
\* the render that follows every state change (line 170)
Render == totals' = CalculateTotals(items', form')

\* history: added is the product addItem was called with, "" when it was not
Track(event, added) ==
  /\ lastEvent' = event
  /\ addCount' = [p \in Products |->
                    IF ~HasLine(items', p) THEN 0
                    ELSE IF p = added THEN addCount[p] + 1
                    ELSE addCount[p]]

\* the effect without setBarcodeInput("")
ScannedProductEffectKeepsInput(sp, input, code, found, other) ==
  IF sp # NoProduct
  THEN /\ CallAddItem(sp)
       /\ barcodeInput' = input
       /\ lastScannedBarcode' = ""
       /\ Track(found, sp.id)
  ELSE /\ items' = items
       /\ barcodeInput' = input
       /\ lastScannedBarcode' = code
       /\ Track(other, "")

\* the effect on scannedProduct (lines 103-109), run after the render in
\* which the barcode query's data is sp; input and code are the values of
\* barcodeInput and lastScannedBarcode in that render
ScannedProductEffect(sp, input, code, found, other) ==
  IF sp # NoProduct
  THEN /\ CallAddItem(sp)
       /\ barcodeInput' = ""
       /\ lastScannedBarcode' = ""
       /\ Track(found, sp.id)
  ELSE /\ items' = items
       /\ barcodeInput' = input
       /\ lastScannedBarcode' = code
       /\ Track(other, "")

\* ------------------------------------------------------------------ Init
Init ==
  /\ items = <<>>
  /\ selectedCustomer = NoCustomer
  /\ barcodeInput = ""
  /\ lastScannedBarcode = ""
  /\ queryCache = [c \in Codes |-> [status |-> "idle", data |-> NoProduct]]
  /\ products = [p \in Products |-> IF p = "p1" THEN "10" ELSE "5"]
  /\ form = DefaultValues
  /\ mutation = [status |-> "idle"]
  /\ request = <<>>
  /\ toast = "none"
  /\ open = TRUE
  /\ invalidated = {}
  /\ totals = CalculateTotals(<<>>, DefaultValues)
  /\ lastEvent = "init"
  /\ addCount = [p \in Products |-> 0]

\* --------------------------------------------------------------- actions
\* onClick of a product button (line 319)
ProductClick(pid) ==
  /\ open
  /\ CallAddItem(CatalogProduct(pid))
  /\ UNCHANGED <<selectedCustomer, barcodeInput, lastScannedBarcode, queryCache,
                 products, form, mutation, request, toast, open, invalidated>>
  /\ Track("addItem", pid)
  /\ Render

\* onClick of the remove button of a line (line 347)
RemoveClick(id) ==
  /\ open
  /\ \E i \in 1..Len(items) : items[i].id = id
  /\ items' = RemoveById(items, id)
  /\ UNCHANGED <<selectedCustomer, barcodeInput, lastScannedBarcode, queryCache,
                 products, form, mutation, request, toast, open, invalidated>>
  /\ Track("remove", "")
  /\ Render

\* onChange of the scan input (line 196)
BarcodeChange(value) ==
  /\ open
  /\ barcodeInput' = value
  /\ UNCHANGED <<items, selectedCustomer, lastScannedBarcode, queryCache,
                 products, form, mutation, request, toast, open, invalidated>>
  /\ Track("typeBarcode", "")
  /\ Render

\* handleBarcodeSearch without the test of barcodeInput.trim(): an empty
\* code is stored like any other, and the query is disabled for it
HandleBarcodeSearchStoresEmpty ==
  IF Trim(barcodeInput) = lastScannedBarcode
  THEN /\ UNCHANGED <<items, barcodeInput, lastScannedBarcode, queryCache>>
       /\ Track("scanSame", "")
  ELSE IF Trim(barcodeInput) = ""
  THEN /\ lastScannedBarcode' = ""
       /\ UNCHANGED <<items, barcodeInput, queryCache>>
       /\ Track("scan", "")
  ELSE LET code == Trim(barcodeInput)
           cache == IF queryCache[code].data = NoProduct
                    THEN [queryCache EXCEPT ![code].status = "fetching"]
                    ELSE queryCache
       IN /\ queryCache' = cache
          /\ ScannedProductEffect(ScannedProductOf(cache, code), barcodeInput, code,
                                  "scanCached", "scan")

\* handleBarcodeSearch (lines 91-94) and what the barcode query does with
\* the new key: setting the code it already has changes nothing, cached
\* data is delivered at once (and the effect runs), a key without data is
\* fetched
HandleBarcodeSearch ==
  IF Trim(barcodeInput) = ""
  THEN /\ UNCHANGED <<items, barcodeInput, lastScannedBarcode, queryCache>>
       /\ Track("scanIgnored", "")
  ELSE IF Trim(barcodeInput) = lastScannedBarcode
  THEN /\ UNCHANGED <<items, barcodeInput, lastScannedBarcode, queryCache>>
       /\ Track("scanSame", "")
  ELSE LET code == Trim(barcodeInput)
           cache == IF queryCache[code].data = NoProduct
                    THEN [queryCache EXCEPT ![code].status = "fetching"]
                    ELSE queryCache
       IN /\ queryCache' = cache
          /\ ScannedProductEffect(ScannedProductOf(cache, code), barcodeInput, code,
                                  "scanCached", "scan")

\* onClick of the scan button (lines 200-204)
ScanButtonClick ==
  /\ open
  /\ ~ScanButtonDisabled
  /\ HandleBarcodeSearch
  /\ UNCHANGED <<selectedCustomer, products, form, mutation, request, toast, open, invalidated>>
  /\ Render

\* handleBarcodeKeyPress with the Enter key (lines 96-100)
HandleBarcodeKeyPress ==
  /\ open
  /\ HandleBarcodeSearch
  /\ UNCHANGED <<selectedCustomer, products, form, mutation, request, toast, open, invalidated>>
  /\ Render

\* the answer handed to the component whatever code it is waiting for
LookupResponseAnyKey(code, ok) ==
  /\ queryCache[code].status = "fetching"
  /\ LET data == IF ok THEN CatalogProduct(BarcodeProduct(code)) ELSE NoProduct
         cache == [queryCache EXCEPT
                     ![code] = [status |-> IF ok THEN "success" ELSE "error",
                                data |-> data]]
     IN /\ queryCache' = cache
        /\ ScannedProductEffect(data, barcodeInput, lastScannedBarcode,
                                "lookupFound",
                                IF code # lastScannedBarcode THEN "lookupStale"
                                ELSE "lookupFailed")
  /\ UNCHANGED <<selectedCustomer, products, form, mutation, request, toast, open,
                 invalidated>>
  /\ Render

\* the barcode endpoint answers the lookup of code: with the product (ok)
\* or with an error / not found.  The answer is stored under its own key;
\* the component sees it only when that key is the pending code.
LookupResponse(code, ok) ==
  /\ queryCache[code].status = "fetching"
  /\ LET data == IF ok THEN CatalogProduct(BarcodeProduct(code)) ELSE NoProduct
         cache == [queryCache EXCEPT
                     ![code] = [status |-> IF ok THEN "success" ELSE "error",
                                data |-> data]]
     IN /\ queryCache' = cache
        /\ ScannedProductEffect(ScannedProductOf(cache, lastScannedBarcode),
                                barcodeInput, lastScannedBarcode,
                                "lookupFound",
                                IF code # lastScannedBarcode THEN "lookupStale"
                                ELSE "lookupFailed")
  /\ UNCHANGED <<selectedCustomer, products, form, mutation, request, toast, open, invalidated>>
  /\ Render

\* the products query delivers a changed price (lines 42-45)
ProductsRefetch(pid, price) ==
  /\ products[pid] # price
  /\ products' = [products EXCEPT ![pid] = price]
  /\ UNCHANGED <<items, selectedCustomer, barcodeInput, lastScannedBarcode, queryCache,
                 form, mutation, request, toast, open, invalidated>>
  /\ Track("productsRefetch", "")
  /\ Render

\* onValueChange of the customer Select (line 229)
SelectCustomer(cid) ==
  /\ open
  /\ selectedCustomer' = IF cid \in Customers THEN cid ELSE NoCustomer
  /\ UNCHANGED <<items, barcodeInput, lastScannedBarcode, queryCache, products,
                 form, mutation, request, toast, open, invalidated>>
  /\ Track("selectCustomer", "")
  /\ Render

\* a form field is edited (lines 256, 265, 278, 373)
FieldChange(field, value) ==
  /\ open
  /\ form[field] # value
  /\ form' = [form EXCEPT ![field] = value]
  /\ UNCHANGED <<items, selectedCustomer, barcodeInput, lastScannedBarcode, queryCache,
                 products, mutation, request, toast, open, invalidated>>
  /\ Track("fieldChange", "")
  /\ Render

\* a || b on strings, undefined being written ""
OrElse(a, b) == IF a # "" THEN a ELSE b

\* the payload with the subtotal as its total
TransactionDataSubtotal(data) ==
  [customerName |-> OrElse(OrElse(CustomerNameOf(selectedCustomer), data.customerName),
                           "unspecified customer"),
   discount |-> data.discount,
   paymentType |-> data.paymentType,
   currency |-> data.currency,
   total |-> ToString(CalculateTotals(items, form).subtotal),
   tax |-> "0",
   customerId |-> selectedCustomer]

\* the payload with the typed name before the selected customer's name
TransactionDataTypedNameFirst(data) ==
  [customerName |-> OrElse(OrElse(data.customerName, CustomerNameOf(selectedCustomer)),
                           "unspecified customer"),
   discount |-> data.discount,
   paymentType |-> data.paymentType,
   currency |-> data.currency,
   total |-> ToString(CalculateTotals(items, form).total),
   tax |-> "0",
   customerId |-> selectedCustomer]

\* the payload of onSubmit (lines 133-141): selectedCustomer?.name is
\* undefined when no customer is selected
TransactionData(data) ==
  [customerName |-> OrElse(OrElse(CustomerNameOf(selectedCustomer), data.customerName),
                           "unspecified customer"),
   discount |-> data.discount,
   paymentType |-> data.paymentType,
   currency |-> data.currency,
   total |-> ToString(CalculateTotals(items, form).total),
   tax |-> "0",
   customerId |-> selectedCustomer]

\* onSubmit without the test of items.length
OnSubmitUnguarded ==
  /\ open
  /\ ~IsPending
  /\ UNCHANGED <<items, selectedCustomer, barcodeInput, lastScannedBarcode, queryCache,
                 products, form, open, invalidated>>
  /\ mutation' = [status |-> "pending"]
  /\ request' = <<[transaction |-> TransactionData(form), items |-> items]>>
  /\ toast' = toast
  /\ Track(IF Len(items) = 0 THEN "submitRejected" ELSE "submit", "")
  /\ Render

\* onSubmit reachable while a request is pending
OnSubmitWhilePending ==
  /\ open
  /\ UNCHANGED <<items, selectedCustomer, barcodeInput, lastScannedBarcode, queryCache,
                 products, form, open, invalidated>>
  /\ IF Len(items) = 0
     THEN /\ toast' = "emptyCart"
          /\ UNCHANGED <<mutation, request>>
          /\ Track("submitRejected", "")
     ELSE /\ mutation' = [status |-> "pending"]
          /\ request' = <<[transaction |-> TransactionData(form), items |-> items]>>
          /\ toast' = toast
          /\ Track("submit", "")
  /\ Render

\* onSubmit (lines 123-144), reached through the submit button (line 401)
\* once form.handleSubmit has accepted the field values
OnSubmit ==
  /\ open
  /\ ~IsPending
  /\ UNCHANGED <<items, selectedCustomer, barcodeInput, lastScannedBarcode, queryCache,
                 products, form, open, invalidated>>
  /\ IF Len(items) = 0
     THEN /\ toast' = "emptyCart"
          /\ UNCHANGED <<mutation, request>>
          /\ Track("submitRejected", "")
     ELSE /\ mutation' = [status |-> "pending"]
          /\ request' = <<[transaction |-> TransactionData(form), items |-> items]>>
          /\ toast' = toast
          /\ Track("submit", "")
  /\ Render

\* onSuccess removing only the lines the request carried
OnSuccessKeepsLaterLines ==
  /\ IsPending
  /\ mutation' = [status |-> "success"]
  /\ request' = <<>>
  /\ invalidated' = invalidated \cup {"/api/transactions", "/api/dashboard/metrics"}
  /\ toast' = "success"
  /\ form' = DefaultValues
  /\ items' = SelectSeq(items, LAMBDA l :
                \A i \in 1..Len(request[1].items) : request[1].items[i].id # l.id)
  /\ open' = FALSE
  /\ UNCHANGED <<selectedCustomer, barcodeInput, lastScannedBarcode, queryCache, products>>
  /\ Track("success", "")
  /\ Render

\* onSuccess of the mutation (lines 150-160)
OnSuccess ==
  /\ IsPending
  /\ mutation' = [status |-> "success"]
  /\ request' = <<>>
  /\ invalidated' = invalidated \cup {"/api/transactions", "/api/dashboard/metrics"}
  /\ toast' = "success"
  /\ form' = DefaultValues
  /\ items' = <<>>
  /\ open' = FALSE
  /\ UNCHANGED <<selectedCustomer, barcodeInput, lastScannedBarcode, queryCache, products>>
  /\ Track("success", "")
  /\ Render

\* onError with the reset of onSuccess
OnErrorResets ==
  /\ IsPending
  /\ mutation' = [status |-> "error"]
  /\ request' = <<>>
  /\ toast' = "error"
  /\ form' = DefaultValues
  /\ items' = <<>>
  /\ UNCHANGED <<selectedCustomer, barcodeInput, lastScannedBarcode, queryCache,
                 products, open, invalidated>>
  /\ Track("error", "")
  /\ Render

\* onError of the mutation (lines 161-167)
OnError ==
  /\ IsPending
  /\ mutation' = [status |-> "error"]
  /\ request' = <<>>
  /\ toast' = "error"
  /\ UNCHANGED <<items, selectedCustomer, barcodeInput, lastScannedBarcode, queryCache,
                 products, form, open, invalidated>>
  /\ Track("error", "")
  /\ Render

\* onClose through the cancel button or the dialog (lines 173, 398)
Cancel ==
  /\ open
  /\ open' = FALSE
  /\ UNCHANGED <<items, selectedCustomer, barcodeInput, lastScannedBarcode, queryCache,
                 products, form, mutation, request, toast, invalidated>>
  /\ Track("cancel", "")
  /\ Render

\* the owner of the form shows it again (open prop, lines 16-19)
Reopen ==
  /\ ~open
  /\ open' = TRUE
  /\ UNCHANGED <<items, selectedCustomer, barcodeInput, lastScannedBarcode, queryCache,
                 products, form, mutation, request, toast, invalidated>>
  /\ Track("reopen", "")
  /\ Render

\* ------------------------------------------------------- specifications
\* Next is the whole form.  The specifications checked are sub-systems of
\* it: each keeps a group of handlers whole and leaves out the handlers
\* that do not write the state the group reads.
Next ==
  \/ \E pid \in Products : ProductClick(pid)
  \/ \E id \in LineIds : RemoveClick(id)
  \/ \E value \in BarcodeInputs : BarcodeChange(value)
  \/ ScanButtonClick
  \/ HandleBarcodeKeyPress
  \/ \E code \in Codes, ok \in BOOLEAN : LookupResponse(code, ok)
  \/ \E pid \in Products, price \in PriceStrings : ProductsRefetch(pid, price)
  \/ \E cid \in Customers \cup {NoCustomer} : SelectCustomer(cid)
  \/ \E value \in CustomerNames : FieldChange("customerName", value)
  \/ \E value \in DiscountInputs : FieldChange("discount", value)
  \/ \E value \in PaymentTypes : FieldChange("paymentType", value)
  \/ \E value \in Currencies : FieldChange("currency", value)
  \/ OnSubmit
  \/ OnSuccess
  \/ OnError
  \/ Cancel
  \/ Reopen

Spec == Init /\ [][Next]_vars

\* the cart, the barcode lookup and the catalog, without submission
NextScan ==
  \/ \E pid \in Products : ProductClick(pid)
  \/ \E id \in LineIds : RemoveClick(id)
  \/ \E value \in BarcodeInputs : BarcodeChange(value)
  \/ ScanButtonClick
  \/ HandleBarcodeKeyPress
  \/ \E code \in Codes, ok \in BOOLEAN : LookupResponse(code, ok)
  \/ \E pid \in Products, price \in PriceStrings : ProductsRefetch(pid, price)

SpecScan == Init /\ [][NextScan]_vars

\* the cart, the lookup of one code and submission, the form fields untouched
NextCart ==
  \/ \E pid \in Products : ProductClick(pid)
  \/ \E id \in LineIds : RemoveClick(id)
  \/ \E value \in {"", "A "} : BarcodeChange(value)
  \/ ScanButtonClick
  \/ HandleBarcodeKeyPress
  \/ \E ok \in BOOLEAN : LookupResponse("A", ok)
  \/ OnSubmit
  \/ OnSuccess
  \/ OnError
  \/ Reopen

SpecCart == Init /\ [][NextCart]_vars

\* the cart, the discount and submission: what the totals are computed from
NextTotals ==
  \/ \E pid \in Products : ProductClick(pid)
  \/ \E id \in LineIds : RemoveClick(id)
  \/ \E value \in DiscountInputs : FieldChange("discount", value)
  \/ OnSubmit
  \/ OnSuccess
  \/ Reopen

SpecTotals == Init /\ [][NextTotals]_vars

\* the draft of one product, filled in and submitted: no barcode lookup and
\* no removal
NextDraft ==
  \/ ProductClick("p1")
  \/ \E cid \in Customers \cup {NoCustomer} : SelectCustomer(cid)
  \/ \E value \in CustomerNames : FieldChange("customerName", value)
  \/ \E value \in {"0", "3"} : FieldChange("discount", value)
  \/ \E value \in PaymentTypes : FieldChange("paymentType", value)
  \/ \E value \in Currencies : FieldChange("currency", value)
  \/ OnSubmit
  \/ OnSuccess
  \/ OnError
  \/ Cancel
  \/ Reopen

SpecDraft == Init /\ [][NextDraft]_vars

\* ------------------------------------------------------------ properties
LinesOf(its, pid) == {i \in 1..Len(its) : its[i].productId = pid}

Quantity(its, pid) == IF HasLine(its, pid) THEN LineOf(its, pid).quantity ELSE 0

\* C1: in every reachable state, after any sequence of product clicks,
\* barcode lookups, removals and submissions, items holds at most one line
\* per distinct productId.
C1_OneLinePerProduct ==
  \A i, j \in 1..Len(items) : items[i].productId = items[j].productId => i = j

\* a product that has a line was added again, by a resolved barcode lookup
C1_Witness ==
  /\ lastEvent = "lookupFound"
  /\ Len(items) = 2
  /\ Quantity(items, "p1") = 2

\* C2: from a draft without a line for P, n >= 1 calls of addItem(P) with no
\* removal or reset in between leave exactly one line for P, with quantity
\* n and lineTotal n times the captured price.
C2_RepeatedAdd ==
  \A p \in Products :
    addCount[p] >= 1 =>
      /\ Cardinality(LinesOf(items, p)) = 1
      /\ LineOf(items, p).quantity = addCount[p]
      /\ LineOf(items, p).total = addCount[p] * LineOf(items, p).price

\* the same product added twice: one line, quantity 2, lineTotal 2 x 10
C2_Witness ==
  /\ addCount["p1"] = 2
  /\ Cardinality(LinesOf(items, "p1")) = 1
  /\ LineOf(items, "p1").quantity = 2
  /\ LineOf(items, "p1").total = 20

\* the sum of the lineTotals of a list of lines
RECURSIVE SumOfLineTotals(_)
SumOfLineTotals(its) ==
  IF its = <<>> THEN 0 ELSE its[Len(its)].total + SumOfLineTotals(SubSeq(its, 1, Len(its) - 1))

\* the discount the user entered, an empty field counting as zero
EnteredDiscount == IF form.discount = "" THEN 0 ELSE ParseFloat(form.discount)

\* C3: in every reachable state the displayed subtotal is the sum of the
\* lineTotals of the current items and the displayed total is the subtotal
\* minus the discount, also for discount 0, for no items, and for a discount
\* above the subtotal (the total is then negative, not clamped).
C3_Totals ==
  /\ totals.subtotal = SumOfLineTotals(items)
  /\ totals.total = SumOfLineTotals(items) - EnteredDiscount
  /\ (/\ Len(items) = 2
      /\ Quantity(items, "p1") = 2 /\ LineOf(items, "p1").price = 10
      /\ Quantity(items, "p2") = 1 /\ LineOf(items, "p2").price = 5
      /\ form.discount = "3")
     => totals.subtotal = 25 /\ totals.total = 22

\* a discount above the subtotal of a non-empty cart: the total is negative
C3_Witness ==
  /\ items # <<>>
  /\ EnteredDiscount > SumOfLineTotals(items)
  /\ totals.total < 0

\* the draft: what the user has entered
draft == <<items, selectedCustomer, form>>

SubmitAttempts == {"submit", "submitRejected"}

\* C4: a submit attempt made while items is empty issues no create-invoice
\* request, leaves the draft unchanged and only shows the validation error;
\* every request is issued from a state with items non-empty.
C4_NoRequestFromEmptyCart ==
  [][/\ (request' # <<>> /\ request' # request) => Len(items) > 0
     /\ lastEvent' = "submit" => Len(items) > 0 /\ request' # <<>>
     /\ (Len(items) = 0 /\ lastEvent' \in SubmitAttempts) =>
          /\ UNCHANGED <<request, mutation, draft, open, invalidated>>
          /\ toast' = "emptyCart"]_vars

\* an attempt with an empty cart was made: the error is shown, nothing sent
C4_Witness ==
  /\ lastEvent = "submitRejected"
  /\ items = <<>>
  /\ toast = "emptyCart"
  /\ request = <<>>
  /\ mutation.status = "idle"

\* C5: removing the only line leaves items empty, and a submit attempt made
\* immediately afterwards is rejected without a request.
C5_RemoveOnlyLineBlocksSubmit ==
  [][/\ (Len(items) = 1 /\ lastEvent' = "remove") => items' = <<>>
     /\ (lastEvent = "remove" /\ items = <<>> /\ lastEvent' \in SubmitAttempts) =>
          /\ lastEvent' = "submitRejected"
          /\ request' = request
          /\ mutation' = mutation
          /\ toast' = "emptyCart"]_vars

\* the only line was just removed and the submit control is enabled
C5_Witness ==
  /\ lastEvent = "remove"
  /\ items = <<>>
  /\ open
  /\ ~IsPending

\* the code a resolving step resolves, and the product it resolves to
ResolvedCode == IF lastEvent' = "lookupFound" THEN lastScannedBarcode ELSE Trim(barcodeInput)

ResolvedProduct == queryCache'[ResolvedCode].data.id

\* C6: when a barcode lookup resolves to a product P, the quantity of P in
\* items grows by exactly 1 (a line with quantity 1 is appended if P had no
\* line, otherwise its line is incremented), no other line changes, and the
\* scan input and the pending code are cleared.
C6_ResolvedLookupAddsOne ==
  [][lastEvent' \in {"lookupFound", "scanCached"} =>
       /\ ResolvedProduct = BarcodeProduct(ResolvedCode)
       /\ Quantity(items', ResolvedProduct) = Quantity(items, ResolvedProduct) + 1
       /\ IF HasLine(items, ResolvedProduct)
          THEN /\ Len(items') = Len(items)
               /\ \A i \in 1..Len(items) :
                    IF items[i].productId = ResolvedProduct
                    THEN items'[i] = [items[i] EXCEPT
                                        !.quantity = items[i].quantity + 1,
                                        !.total = (items[i].quantity + 1) * items[i].price]
                    ELSE items'[i] = items[i]
          ELSE /\ Len(items') = Len(items) + 1
               /\ SubSeq(items', 1, Len(items)) = items
               /\ items'[Len(items')].productId = ResolvedProduct
               /\ items'[Len(items')].quantity = 1
       /\ barcodeInput' = ""
       /\ lastScannedBarcode' = ""]_vars

\* a lookup resolved to a product that had a line, next to another line
C6_Witness ==
  /\ lastEvent = "lookupFound"
  /\ Quantity(items, "p1") = 2
  /\ HasLine(items, "p2")
  /\ barcodeInput = ""
  /\ lastScannedBarcode = ""

\* C7: when the lookup of the pending code fails or finds nothing, items is
\* unchanged and the not-found notice becomes visible; nothing else of the
\* form changes, the scan control is not left loading and the submit
\* control keeps its state.
C7_FailedLookup ==
  [][lastEvent' = "lookupFailed" =>
       /\ items' = items
       /\ NotFoundNotice'
       /\ ~NotFoundNotice
       /\ ~BarcodeLoading'
       /\ UNCHANGED <<barcodeInput, lastScannedBarcode, selectedCustomer, form, mutation,
                      request, toast, open, invalidated, totals>>]_vars

\* a lookup failed while the cart held a line: the notice is shown
C7_Witness ==
  /\ lastEvent = "lookupFailed"
  /\ NotFoundNotice
  /\ items # <<>>

\* C8: once another code has been submitted, the response of an earlier
\* lookup still in flight neither adds nor increments a line nor clears the
\* scan input; only the response for the pending code changes items.
C8_StaleResponseIgnored ==
  [][\A c \in Codes :
       (queryCache[c].status = "fetching" /\ queryCache'[c].status # "fetching"
          /\ c # lastScannedBarcode) =>
         UNCHANGED <<items, barcodeInput, lastScannedBarcode>>]_vars

\* the lookup of A was answered with its product while B was pending, and
\* no line for that product was added
C8_Witness ==
  /\ lastEvent = "lookupStale"
  /\ queryCache["A"].status = "success"
  /\ lastScannedBarcode = "B"
  /\ ~HasLine(items, BarcodeProduct("A"))

\* C9: after a create-invoice request succeeds the whole draft is back at
\* its initial value (no items, discount 0, empty customer name, TRY, cash,
\* no customer selected), the form is closed and the transaction and
\* dashboard-metrics caches are invalidated.
C9_SuccessResetsDraft ==
  lastEvent = "success" =>
    /\ items = <<>>
    /\ form.discount = "0"
    /\ form.customerName = ""
    /\ form.currency = "TRY"
    /\ form.paymentType = "cash"
    /\ selectedCustomer = NoCustomer
    /\ ~open
    /\ {"/api/transactions", "/api/dashboard/metrics"} \subseteq invalidated

\* C10: when a create-invoice request fails, items, the selected customer
\* and the form fields keep their values, the form is not closed, the
\* generic error is shown, the submit control is enabled again, and a
\* submit attempt made next with a non-empty cart sends the draft again.
C10_FailureKeepsDraft ==
  [][/\ lastEvent' = "error" =>
          /\ UNCHANGED <<draft, open>>
          /\ toast' = "error"
          /\ IsPending /\ ~IsPending'
     /\ (lastEvent = "error" /\ Len(items) > 0 /\ lastEvent' \in SubmitAttempts) =>
          /\ lastEvent' = "submit"
          /\ request' # <<>>
          /\ request'[1].items = items]_vars

\* a request failed with a filled-in draft: the draft is still there
C10_Witness ==
  /\ lastEvent = "error"
  /\ toast = "error"
  /\ items # <<>>
  /\ selectedCustomer = "c1"
  /\ form.customerName = "Ali"
  /\ form.currency = "USD"
  /\ open
  /\ ~IsPending

\* C11: an explicit cancel discards the draft: after the cancel control is
\* used, items is empty, no customer is selected and the form fields are at
\* their defaults.
C11_CancelDiscardsDraft ==
  lastEvent = "cancel" =>
    /\ items = <<>>
    /\ selectedCustomer = NoCustomer
    /\ form = DefaultValues

CarriedDiscount(transaction) ==
  IF transaction.discount = "" THEN 0 ELSE ParseFloat(transaction.discount)

\* what C13 asks of one request, issued from the item list its
WellFormedRequest(r, its) ==
  /\ r.items = its
  /\ r.transaction.total =
       ToString(SumOfLineTotals(r.items) - CarriedDiscount(r.transaction))
  /\ r.transaction.tax = "0"

\* C13: every create-invoice request carries the item list of the draft at
\* the moment of submission, a total equal to the sum of the lineTotals of the
\* carried items minus the discount carried in the same request, and a tax of
\* zero; each accepted submit attempt issues exactly one such request.
C13_RequestPayload ==
  [][ /\ lastEvent' = "submit" =>
           /\ request = <<>>
           /\ Len(request') = 1
           /\ WellFormedRequest(request'[1], items)
           /\ request'[1].transaction.discount = form.discount
      /\ (request' # <<>> /\ lastEvent' # "submit") => request' = request ]_vars

\* a request for two lines and a discount of 3 is in flight
C13_Witness ==
  /\ request # <<>>
  /\ Len(request[1].items) = 2
  /\ SumOfLineTotals(request[1].items) = 25
  /\ request[1].transaction.discount = "3"
  /\ request[1].transaction.total = "22"
  /\ request[1].transaction.tax = "0"

\* C14: the customer name of a request is the selected customer's name if a
\* customer is selected (customerId is then that customer's id), otherwise
\* the typed name if it is non-empty (customerId null), otherwise the
\* placeholder for an unspecified customer; it is never empty.
C14_CustomerResolution ==
  [][ lastEvent' = "submit" =>
        LET t == request'[1].transaction IN
        /\ selectedCustomer # NoCustomer =>
             /\ t.customerName = CustomerNameOf(selectedCustomer)
             /\ t.customerId = selectedCustomer
        /\ (selectedCustomer = NoCustomer /\ form.customerName # "") =>
             /\ t.customerName = form.customerName
             /\ t.customerId = NoCustomer
        /\ (selectedCustomer = NoCustomer /\ form.customerName = "") =>
             /\ t.customerName = "unspecified customer"
             /\ t.customerId = NoCustomer
        /\ t.customerName # "" ]_vars

\* a request issued with a customer selected and another name typed
C14_Witness ==
  /\ request # <<>>
  /\ selectedCustomer = "c1"
  /\ form.customerName = "Ali"
  /\ request[1].transaction.customerName = "Zeynep"
  /\ request[1].transaction.customerId = "c1"
  /\ lastEvent = "submit"

C16_LineInvariant ==
  \A i \in 1..Len(items) :
    /\ items[i].quantity \in Nat
    /\ items[i].quantity >= 1
    /\ items[i].total = items[i].quantity * items[i].price

\* two lines, the scanned one at quantity 2, the other at quantity 1
C16_Witness ==
  /\ lastEvent = "lookupFound"
  /\ Len(items) = 2
  /\ LineOf(items, "p1").quantity = 2
  /\ LineOf(items, "p1").total = 20
  /\ LineOf(items, "p2").quantity = 1
  /\ LineOf(items, "p2").total = 5

\* its without its k-th line
WithoutLine(its, k) ==
  [i \in 1..(Len(its) - 1) |-> IF i < k THEN its[i] ELSE its[i + 1]]

\* C17: a removal deletes one whole line whatever its quantity and leaves
\* every other line as it was and in the same relative position; no step
\* takes a unit off a line; incrementing a line does not move it; a new line
\* goes to the end, so items stays in first-insertion order.
C17_RemovalAndOrder ==
  [][ /\ lastEvent' = "remove" =>
           \E k \in 1..Len(items) : items' = WithoutLine(items, k)
      /\ Len(items') < Len(items) => lastEvent' \in {"remove", "success"}
      /\ Len(items') = Len(items) =>
           /\ \A i \in 1..Len(items) :
                /\ items'[i].id = items[i].id
                /\ items'[i].productId = items[i].productId
                /\ items'[i].quantity >= items[i].quantity
           /\ items' # items =>
                \E k \in 1..Len(items) :
                  /\ items'[k].quantity = items[k].quantity + 1
                  /\ \A i \in 1..Len(items) : i # k => items'[i] = items[i]
      /\ Len(items') > Len(items) =>
           /\ Len(items') = Len(items) + 1
           /\ SubSeq(items', 1, Len(items)) = items ]_vars

\* the line inserted first was removed; the one inserted second, at
\* quantity 2, is what remains
C17_Witness ==
  /\ lastEvent = "remove"
  /\ Len(items) = 1
  /\ items[1].productId = "p2"
  /\ items[1].id = "u2"
  /\ items[1].quantity = 2
  /\ items[1].total = 10

\* the labels of the steps of handleBarcodeSearch
ScanEvents == {"scan", "scanIgnored", "scanSame", "scanCached"}

\* the codes whose lookup is in flight
Fetching(cache) == {c \in Codes : cache[c].status = "fetching"}

\* a trigger of the scan with an empty or whitespace-only input changes no
\* state of the form
EmptyScanChangesNothing ==
  (lastEvent' \in ScanEvents /\ Trim(barcodeInput) = "") =>
    UNCHANGED <<items, selectedCustomer, barcodeInput, lastScannedBarcode, queryCache,
                products, form, mutation, request, toast, open, invalidated, totals>>

\* a lookup is started only by a scan, for the trimmed non-empty input, which
\* becomes the pending code
LookupStartedForCode ==
  \A c \in Fetching(queryCache') \ Fetching(queryCache) :
    /\ lastEvent' = "scan"
    /\ c # ""
    /\ c = Trim(barcodeInput)
    /\ lastScannedBarcode' = c

\* C18 as stated: a lookup is started only for a non-empty code, a trigger
\* of the scan with an empty or whitespace-only input starts no lookup and
\* changes no state, and no lookup is active while the pending scanned code
\* is empty.
C18_NoLookupWhileCodeEmpty ==
  [][ /\ EmptyScanChangesNothing
      /\ LookupStartedForCode
      /\ lastScannedBarcode' = "" => Fetching(queryCache') = {} ]_vars

\* C18 amended: a lookup is started only for a non-empty code, which becomes
\* the pending code; a trigger of the scan (button or Enter) with an empty or
\* whitespace-only input starts no lookup and changes no state; the lookup
\* the form waits for is that of the pending code, which is then not empty,
\* and a lookup still in flight while the pending code is empty is one that
\* was started for a non-empty code and was in flight before that step.
C18_LookupOnlyForCode ==
  [][ /\ EmptyScanChangesNothing
      /\ LookupStartedForCode
      /\ BarcodeLoading' => lastScannedBarcode' \in Fetching(queryCache')
      /\ lastScannedBarcode' = "" => Fetching(queryCache') \subseteq Fetching(queryCache) ]_vars

\* Enter was pressed on a whitespace-only input while the lookup of A was
\* pending: the lookup, the pending code and the input are as they were
C18_Witness ==
  /\ lastEvent = "scanIgnored"
  /\ barcodeInput = " "
  /\ lastScannedBarcode = "A"
  /\ BarcodeLoading

\* C19: edits made to items while a submission is pending do not reach the
\* request in flight, which keeps the item list and total it was issued
\* with, and when that submission succeeds items is emptied, lines added
\* while it was pending included.
C19_EditsWhilePending ==
  [][ /\ (IsPending /\ items' # items /\ lastEvent' # "success") =>
           /\ request' = request
           /\ IsPending'
      /\ lastEvent' = "success" =>
           /\ IsPending
           /\ items' = <<>>
           /\ request' = <<>> ]_vars

\* a second line was added while the request for the first was pending
C19_Witness ==
  /\ IsPending
  /\ lastEvent = "addItem"
  /\ Len(request[1].items) = 1
  /\ Len(items) = 2
  /\ items[1] = request[1].items[1]
  /\ request[1].transaction.total = ToString(request[1].items[1].total)

====
